---- MODULE Spec2Model ----
(***************************************************************************)
(* A model of the front end of the raft toy language: the recursive        *)
(* descent parser of src/src/parser.cpp and the value operations of        *)
(* src/unnamed/part_000 (isTruthy, isEqual).                               *)
(*                                                                         *)
(* The token sequence is the variable `tokens` (a sequence of token        *)
(* types).  Every program is written one token per line and the i-th token *)
(* carries the literal/lexeme number i, so that a token is identified by   *)
(* its line and two operands are never confused.  The parser's own state   *)
(* is a record p = [current, errors, syncs]: the cursor (0-based, as in    *)
(* the code), the diagnostics given to Raft::error in order, and the trace *)
(* of the calls of synchronize (who called it, cursor before and after).   *)
(* A grammar rule is an operator from a parser state to a result           *)
(* [p, exc, node, tok, msg]: exc = "none" and the node built, or           *)
(* exc = "RuntimeError" with the token and message of the thrown error.    *)
(***************************************************************************)
EXTENDS Integers, Sequences, FiniteSets, TLC

VARIABLES tokens, current, statements, errors, syncs, pc,
          a, b, truthy1, truthy2, equal

vars == <<tokens, current, statements, errors, syncs, pc,
          a, b, truthy1, truthy2, equal>>

parserVars == <<tokens, current, statements, errors, syncs, pc>>
valueVars == <<a, b, truthy1, truthy2, equal>>

----------------------------------------------------------------------------
(* Values: the variant object::Object.                                     *)

String(s) == [tag |-> "String", str |-> s, num |-> 0, nan |-> FALSE, bool |-> FALSE, ptr |-> 0]
Number(n) == [tag |-> "Number", str |-> "", num |-> n, nan |-> FALSE, bool |-> FALSE, ptr |-> 0]
NumberNaN == [tag |-> "Number", str |-> "", num |-> 0, nan |-> TRUE, bool |-> FALSE, ptr |-> 0]
Boolean(v) == [tag |-> "Boolean", str |-> "", num |-> 0, nan |-> FALSE, bool |-> v, ptr |-> 0]
Null == [tag |-> "Null", str |-> "", num |-> 0, nan |-> FALSE, bool |-> FALSE, ptr |-> 0]
CallPtr(c) == [tag |-> "Callable", str |-> "", num |-> 0, nan |-> FALSE, bool |-> FALSE, ptr |-> c]

----------------------------------------------------------------------------
(* Tokens and the cursor primitives.                                       *)

NoToken == [type |-> "None", line |-> 0, literal |-> 0]

\* tokens.at(i): the i-th token (0-based), on line i+1, with literal i+1
at(i) == [type |-> tokens[i + 1], line |-> i + 1, literal |-> i + 1]

peek(p) == at(p.current)

previous(p) == at(p.current - 1)

isAtEnd(p) == peek(p).type = "EndOfFile"

advance(p) == IF ~isAtEnd(p) THEN [p EXCEPT !.current = p.current + 1] ELSE p

check(p, type) == IF isAtEnd(p) THEN FALSE ELSE peek(p).type = type

\* match(types...): the first of the types the lookahead has is consumed
match(p, types) == \E t \in types : check(p, t)

Ok(p, node) == [p |-> p, exc |-> "none", node |-> node, tok |-> NoToken, msg |-> ""]

NullNode == [kind |-> "null"]

\* throw RuntimeError{token, message}
RuntimeError(p, token, message) ==
    [p |-> p, exc |-> "RuntimeError", node |-> NullNode, tok |-> token, msg |-> message]

\* std::out_of_range, thrown by tokens.at of an index outside the vector
OutOfRange(p) ==
    [p |-> p, exc |-> "out_of_range", node |-> NullNode, tok |-> NoToken, msg |-> "vector::at"]

consume(p, type, message) ==
    IF check(p, type) THEN Ok(advance(p), NullNode)
    ELSE RuntimeError(p, peek(p), message)

\* Raft::error(line, message)
error(p, line, message) ==
    [p EXCEPT !.errors = Append(p.errors, [line |-> line, msg |-> message])]

----------------------------------------------------------------------------
(* AST nodes.                                                              *)

Literal(value) == [kind |-> "Literal", value |-> value]
Variable(name) == [kind |-> "Variable", name |-> name]
Assign(name, value) == [kind |-> "Assign", name |-> name, right |-> value]
Grouping(expr) == [kind |-> "Grouping", right |-> expr]
Unary(op, right) == [kind |-> "Unary", op |-> op, right |-> right]
Binary(left, op, right) == [kind |-> "Binary", left |-> left, op |-> op, right |-> right]
Logical(left, op, right) == [kind |-> "Logical", left |-> left, op |-> op, right |-> right]

ExprStmt(expr) == [kind |-> "ExprStmt", right |-> expr]
PrintStmt(expr) == [kind |-> "Print", right |-> expr]
VarDecl(name, init) == [kind |-> "VarDecl", name |-> name, right |-> init]
Block(stmts) == [kind |-> "Block", stmts |-> stmts]
If(cond, thenBranch, elseBranch) ==
    [kind |-> "If", cond |-> cond, thenBranch |-> thenBranch, elseBranch |-> elseBranch]
While(cond, body) == [kind |-> "While", cond |-> cond, body |-> body]

----------------------------------------------------------------------------
(* Exceptions.  A rule returns Ok(p, node) or the exception it threw; a     *)
(* throw in a callee unwinds the caller: what follows the call is skipped.  *)

Then(r, K(_)) == IF r.exc # "none" THEN r ELSE K(r)

----------------------------------------------------------------------------
(* The expression rules.                                                   *)

RECURSIVE expression(_), assignment(_), logicOr(_), logicOrLoop(_, _),
          logicAnd(_), logicAndLoop(_, _), equality(_), equalityLoop(_, _),
          comparison(_), comparisonLoop(_, _), term(_), termLoop(_, _),
          factor(_), factorLoop(_, _), unary(_), primary(_)

\* expression :: assignment
expression(p) == assignment(p)

\* mutant: an invalid target is thrown as a parse error, not reported
assignmentThrowsInvalidTarget(p) ==
    Then(logicOr(p), LAMBDA l :
        IF match(l.p, {"Equal"}) THEN
            Then(assignment(advance(l.p)), LAMBDA v :
                IF l.node.kind = "Variable"
                THEN Ok(v.p, Assign(l.node.name, v.node))
                ELSE RuntimeError(v.p, previous(advance(l.p)), "Invalid assignment target"))
        ELSE l)

\* assignment :: IDENTIFIER "=" assignment | logic_or
\* equals is previous() right after match(Equal); value is parsed before the
\* target is looked at
assignment(p) ==
    Then(logicOr(p), LAMBDA l :
        IF match(l.p, {"Equal"}) THEN
            Then(assignment(advance(l.p)), LAMBDA v :
                IF l.node.kind = "Variable"
                THEN Ok(v.p, Assign(l.node.name, v.node))
                ELSE Ok(error(v.p, previous(advance(l.p)).line, "Invalid assignment target"),
                        l.node))
        ELSE l)

\* logic_or :: logic_and ( "or" logic_and )*
\* op is previous() right after match(...), right is parsed after it
logicOrLoop(p, expr) ==
    IF match(p, {"Or"}) THEN
        Then(logicAnd(advance(p)), LAMBDA r :
            logicOrLoop(r.p, Logical(expr, previous(advance(p)), r.node)))
    ELSE Ok(p, expr)

logicOr(p) == Then(logicAnd(p), LAMBDA l : logicOrLoop(l.p, l.node))

\* logic_and :: equality ( "and" equality )*
logicAndLoop(p, expr) ==
    IF match(p, {"And"}) THEN
        Then(equality(advance(p)), LAMBDA r :
            logicAndLoop(r.p, Logical(expr, previous(advance(p)), r.node)))
    ELSE Ok(p, expr)

logicAnd(p) == Then(equality(p), LAMBDA l : logicAndLoop(l.p, l.node))

\* equality :: comparison ( ( "!=" | "==" ) comparison )*
equalityLoop(p, expr) ==
    IF match(p, {"BangEqual", "EqualEqual"}) THEN
        Then(comparison(advance(p)), LAMBDA r :
            equalityLoop(r.p, Binary(expr, previous(advance(p)), r.node)))
    ELSE Ok(p, expr)

equality(p) == Then(comparison(p), LAMBDA l : equalityLoop(l.p, l.node))

\* comparison :: term ( ( ">" | ">=" | "<" | "<=" ) term )*
comparisonLoop(p, expr) ==
    IF match(p, {"GreaterThanSign", "GreaterEqual", "LessThanSign", "LessEqual"}) THEN
        Then(term(advance(p)), LAMBDA r :
            comparisonLoop(r.p, Binary(expr, previous(advance(p)), r.node)))
    ELSE Ok(p, expr)

comparison(p) == Then(term(p), LAMBDA l : comparisonLoop(l.p, l.node))

\* mutant: the right operand is parsed by term itself, not by factor
termLoopRightRecursive(p, expr) ==
    IF match(p, {"Minus", "Plus"}) THEN
        Then(term(advance(p)), LAMBDA r :
            Ok(r.p, Binary(expr, previous(advance(p)), r.node)))
    ELSE Ok(p, expr)

\* term :: factor ( ( "-" | "+" ) factor )*
termLoop(p, expr) ==
    IF match(p, {"Minus", "Plus"}) THEN
        Then(factor(advance(p)), LAMBDA r :
            termLoop(r.p, Binary(expr, previous(advance(p)), r.node)))
    ELSE Ok(p, expr)

term(p) == Then(factor(p), LAMBDA l : termLoop(l.p, l.node))

\* factor :: unary ( ( "/" | "*" ) unary )*
factorLoop(p, expr) ==
    IF match(p, {"Slash", "Star"}) THEN
        Then(unary(advance(p)), LAMBDA r :
            factorLoop(r.p, Binary(expr, previous(advance(p)), r.node)))
    ELSE Ok(p, expr)

factor(p) == Then(unary(p), LAMBDA l : factorLoop(l.p, l.node))

\* unary :: ( "!" | "-" ) unary | primary
unary(p) ==
    IF match(p, {"Bang", "Minus"}) THEN
        Then(unary(advance(p)), LAMBDA r :
            Ok(r.p, Unary(previous(advance(p)), r.node)))
    ELSE primary(p)

\* primary :: NUMBER | STRING | "true" | "false" | "nil" | "(" expression ")" | IDENTIFIER
primary(p) ==
    IF match(p, {"False"}) THEN Ok(advance(p), Literal(Boolean(FALSE)))
    ELSE IF match(p, {"True"}) THEN Ok(advance(p), Literal(Boolean(TRUE)))
    ELSE IF match(p, {"Nil"}) THEN Ok(advance(p), Literal(Null))
    ELSE IF match(p, {"NumberLiteral"})
         THEN Ok(advance(p), Literal(Number(previous(advance(p)).literal)))
    ELSE IF match(p, {"StringLiteral"})
         THEN Ok(advance(p), Literal(String(ToString(previous(advance(p)).literal))))
    ELSE IF match(p, {"Identifier"}) THEN Ok(advance(p), Variable(previous(advance(p))))
    ELSE IF match(p, {"LeftParenthesis"}) THEN
        Then(expression(advance(p)), LAMBDA e :
        Then(consume(e.p, "RightParenthesis", "Exprect ')' after expression"), LAMBDA c :
            Ok(c.p, Grouping(e.node))))
    ELSE RuntimeError(p, peek(p), "Expect expression")

----------------------------------------------------------------------------
(* Panic-mode recovery.                                                    *)

\* the token types at which synchronize stops
BoundaryKeywords == {"Class", "Fun", "Var", "For", "If", "While", "Print", "Return"}

RECURSIVE synchronizeLoop(_)

\* mutant: the loop does not stop behind a ';'
synchronizeLoopNoSemicolon(p) ==
    IF isAtEnd(p) THEN p
    ELSE IF peek(p).type \in BoundaryKeywords THEN p
    ELSE synchronizeLoop(advance(p))

\* mutant: the loop does not stop in front of a statement keyword
synchronizeLoopNoKeywords(p) ==
    IF isAtEnd(p) THEN p
    ELSE IF previous(p).type = "Semicolon" THEN p
    ELSE synchronizeLoop(advance(p))

synchronizeLoop(p) ==
    IF isAtEnd(p) THEN p
    ELSE IF previous(p).type = "Semicolon" THEN p
    ELSE IF peek(p).type \in BoundaryKeywords THEN p
    ELSE synchronizeLoop(advance(p))

\* advance() ends with previous(), tokens.at(current - 1): with the cursor
\* still at 0 the index wraps around and at() throws std::out_of_range
synchronize(p) ==
    IF advance(p).current = 0 THEN OutOfRange(advance(p))
    ELSE Ok(synchronizeLoop(advance(p)), NullNode)

\* the record of one run of synchronize: whose catch clause, from where, to where
Synced(by, from, s) ==
    [s EXCEPT !.p.syncs = Append(s.p.syncs, [by |-> by, from |-> from, to |-> s.p.current])]

\* mutant: the catch clause reports the error and does not synchronize
recoverNoSynchronize(ex, by) == Ok(error(ex.p, ex.tok.line, ex.msg), NullNode)

\* catch (const RuntimeError &ex) { Raft::error(ex.token.line, ex.what()); synchronize(); }
\* `by` names the function whose catch clause runs
recover(ex, by) ==
    Synced(by, ex.p.current, synchronize(error(ex.p, ex.tok.line, ex.msg)))

----------------------------------------------------------------------------
(* The statement rules.                                                    *)

RECURSIVE declaration(_), varDeclaration(_), statement(_), forStatement(_),
          ifStatement(_), printStatement(_), whileStatement(_), block(_),
          blockLoop(_, _), expressionStatement(_)

\* the catch clause of declaration: only a RuntimeError is caught
Catch(r, by) == IF r.exc = "RuntimeError" THEN recover(r, by) ELSE r

\* mutant: no try/catch around the rule
declarationNoCatch(p) ==
    IF match(p, {"Var"}) THEN varDeclaration(advance(p)) ELSE statement(p)

\* declaration :: varDecl | statement
declaration(p) ==
    Catch(IF match(p, {"Var"}) THEN varDeclaration(advance(p)) ELSE statement(p),
          "declaration")

\* "var" IDENTIFIER ( "=" expression )? ";"
varDeclaration(p) ==
    Then(consume(p, "Identifier", "Expect variable name"), LAMBDA n :
    Then(IF match(n.p, {"Equal"}) THEN expression(advance(n.p)) ELSE Ok(n.p, NullNode),
         LAMBDA i :
    Then(consume(i.p, "Semicolon", "Expect ';' after variable declaration"), LAMBDA c :
        Ok(c.p, VarDecl(previous(n.p), i.node)))))

\* statement :: exprStmt | forStmt | ifStmt | printStmt | whileStmt | block
statement(p) ==
    IF match(p, {"For"}) THEN forStatement(advance(p))
    ELSE IF match(p, {"If"}) THEN ifStatement(advance(p))
    ELSE IF match(p, {"Print"}) THEN printStatement(advance(p))
    ELSE IF match(p, {"While"}) THEN whileStatement(advance(p))
    ELSE IF match(p, {"LeftCurlyBracket"}) THEN
        Then(block(advance(p)), LAMBDA bl : Ok(bl.p, Block(bl.node.stmts)))
    ELSE expressionStatement(p)

\* mutant: the increment is put before the body
forStatementIncrementFirst(p) ==
    Then(consume(p, "LeftParenthesis", "Expect '(' after 'for'"), LAMBDA lp :
    Then(IF match(lp.p, {"Semicolon"}) THEN Ok(advance(lp.p), NullNode)
         ELSE IF match(lp.p, {"Var"}) THEN varDeclaration(advance(lp.p))
         ELSE expressionStatement(lp.p),
         LAMBDA initializer :
    Then(IF ~check(initializer.p, "Semicolon") THEN expression(initializer.p)
         ELSE Ok(initializer.p, NullNode),
         LAMBDA condition :
    Then(consume(condition.p, "Semicolon", "Expect ';' after loop condition"), LAMBDA sc :
    Then(IF ~check(sc.p, "RightParenthesis") THEN expression(sc.p) ELSE Ok(sc.p, NullNode),
         LAMBDA increment :
    Then(consume(increment.p, "RightParenthesis", "Expect ')' after for clauses"), LAMBDA rp :
    Then(statement(rp.p), LAMBDA body :
        LET body1 == IF increment.node # NullNode
                     THEN Block(<<ExprStmt(increment.node), body.node>>)
                     ELSE body.node
            condition1 == IF condition.node = NullNode THEN Literal(Boolean(TRUE))
                          ELSE condition.node
            body2 == While(condition1, body1)
        IN  IF initializer.node # NullNode
            THEN Ok(body.p, Block(<<initializer.node, body2>>))
            ELSE Ok(body.p, body2))))))))

\* forStmt :: "for" "(" (varDecl | exprStmt | ";" ) expression? ";" expression? ")" statement
forStatement(p) ==
    Then(consume(p, "LeftParenthesis", "Expect '(' after 'for'"), LAMBDA lp :
    Then(IF match(lp.p, {"Semicolon"}) THEN Ok(advance(lp.p), NullNode)
         ELSE IF match(lp.p, {"Var"}) THEN varDeclaration(advance(lp.p))
         ELSE expressionStatement(lp.p),
         LAMBDA initializer :
    Then(IF ~check(initializer.p, "Semicolon") THEN expression(initializer.p)
         ELSE Ok(initializer.p, NullNode),
         LAMBDA condition :
    Then(consume(condition.p, "Semicolon", "Expect ';' after loop condition"), LAMBDA sc :
    Then(IF ~check(sc.p, "RightParenthesis") THEN expression(sc.p) ELSE Ok(sc.p, NullNode),
         LAMBDA increment :
    Then(consume(increment.p, "RightParenthesis", "Expect ')' after for clauses"), LAMBDA rp :
    Then(statement(rp.p), LAMBDA body :
        LET body1 == IF increment.node # NullNode
                     THEN Block(<<body.node, ExprStmt(increment.node)>>)
                     ELSE body.node
            condition1 == IF condition.node = NullNode THEN Literal(Boolean(TRUE))
                          ELSE condition.node
            body2 == While(condition1, body1)
        IN  IF initializer.node # NullNode
            THEN Ok(body.p, Block(<<initializer.node, body2>>))
            ELSE Ok(body.p, body2))))))))

\* ifStmt :: "if" "(" expression ")" statement ( "else" statement )?
ifStatement(p) ==
    Then(consume(p, "LeftParenthesis", "Exprect '(' after 'if'"), LAMBDA lp :
    Then(expression(lp.p), LAMBDA condition :
    Then(consume(condition.p, "RightParenthesis", "Exprect ')' after if condition"), LAMBDA rp :
    Then(statement(rp.p), LAMBDA thenBranch :
    Then(IF match(thenBranch.p, {"Else"}) THEN statement(advance(thenBranch.p))
         ELSE Ok(thenBranch.p, NullNode),
         LAMBDA elseBranch :
        Ok(elseBranch.p, If(condition.node, thenBranch.node, elseBranch.node)))))))

\* printStmt :: "print" expression ";"
printStatement(p) ==
    Then(expression(p), LAMBDA value :
    Then(consume(value.p, "Semicolon", "Expect ';' after value"), LAMBDA c :
        Ok(c.p, PrintStmt(value.node))))

\* whileStmt :: "while" "(" expression ")" statement
whileStatement(p) ==
    Then(consume(p, "LeftParenthesis", "Expect '(' after 'while'"), LAMBDA lp :
    Then(expression(lp.p), LAMBDA condition :
    Then(consume(condition.p, "RightParenthesis", "Exprect ')' after condition"), LAMBDA rp :
    Then(statement(rp.p), LAMBDA body :
        Ok(body.p, While(condition.node, body.node))))))

\* block :: "{" declaration* "}"; the vector returned is the field stmts
blockLoop(p, stmts) ==
    IF ~check(p, "RightCurlyBracket") /\ ~isAtEnd(p) THEN
        Then(declaration(p), LAMBDA d : blockLoop(d.p, Append(stmts, d.node)))
    ELSE
        Then(consume(p, "RightCurlyBracket", "Exprect '}' after block"), LAMBDA c :
            Ok(c.p, [kind |-> "vector", stmts |-> stmts]))

block(p) == blockLoop(p, <<>>)

\* exprStmt :: expression ";"
expressionStatement(p) ==
    Then(expression(p), LAMBDA expr :
    Then(consume(expr.p, "Semicolon", "Exprect ';' after expession"), LAMBDA c :
        Ok(c.p, ExprStmt(expr.node))))

----------------------------------------------------------------------------
(* Parser::parse, one iteration of its loop per step.                      *)

\* the parser object's state
P == [current |-> current, errors |-> errors, syncs |-> syncs]

\* the statement of the while loop: statements.emplace_back(declaration());
\* a RuntimeError leaving declaration() lands in parse's own catch clause,
\* which is outside the loop; any other exception leaves parse
parseLoop ==
    /\ pc = "loop"
    /\ ~isAtEnd(P)
    /\ \E d \in {declaration(P)} :
       \E r \in {IF d.exc = "RuntimeError" THEN recover(d, "parse") ELSE d} :
           /\ current' = r.p.current
           /\ errors' = r.p.errors
           /\ syncs' = r.p.syncs
           /\ statements' = IF d.exc = "none" THEN Append(statements, d.node)
                            ELSE statements
           /\ pc' = IF r.exc # "none" THEN "terminated"
                    ELSE IF d.exc = "none" THEN "loop"
                    ELSE "returned"
    /\ UNCHANGED <<tokens, valueVars>>

\* the loop's condition fails: return statements;
parseReturn ==
    /\ pc = "loop"
    /\ isAtEnd(P)
    /\ pc' = "returned"
    /\ UNCHANGED <<tokens, current, statements, errors, syncs, valueVars>>

----------------------------------------------------------------------------
(* The value operations.                                                   *)

Returns(v) == [exc |-> "none", ret |-> v]
Unset == [exc |-> "unset", ret |-> FALSE]

\* false and nil are falsey, and everything else is truthy
isTruthy(obj) ==
    IF obj.tag = "Null" THEN Returns(FALSE)
    ELSE IF obj.tag = "Boolean" THEN Returns(obj.bool)
    ELSE Returns(TRUE)

\* the second definition: a visitor over the alternatives it names
isTruthy_2(obj) ==
    IF obj.tag = "String" THEN Returns(TRUE)
    ELSE IF obj.tag = "Number" THEN Returns(TRUE)
    ELSE IF obj.tag = "Boolean" THEN Returns(obj.bool)
    ELSE IF obj.tag = "Null" THEN Returns(FALSE)
    ELSE [exc |-> "runtime_error", ret |-> FALSE]

\* operator== of the variant: the same alternative, and its values equal
\* under the alternative's own ==; for doubles NaN equals nothing
variantEquals(x, y) ==
    /\ x.tag = y.tag
    /\ CASE x.tag = "String" -> x.str = y.str
         [] x.tag = "Number" -> ~x.nan /\ ~y.nan /\ x.num = y.num
         [] x.tag = "Boolean" -> x.bool = y.bool
         [] x.tag = "Null" -> TRUE
         [] x.tag = "Callable" -> x.ptr = y.ptr

isEqual(x, y) ==
    IF x.tag = "Null" /\ y.tag = "Null" THEN Returns(TRUE)
    ELSE IF x.tag = "Null" THEN Returns(FALSE)
    ELSE Returns(variantEquals(x, y))

callIsTruthy ==
    /\ pc = "values"
    /\ truthy1 = Unset
    /\ truthy1' = isTruthy(a)
    /\ truthy2' = isTruthy_2(a)
    /\ UNCHANGED <<parserVars, a, b, equal>>

callIsEqual ==
    /\ pc = "values"
    /\ equal = Unset
    /\ equal' = isEqual(a, b)
    /\ UNCHANGED <<parserVars, a, b, truthy1, truthy2>>

----------------------------------------------------------------------------
(* Inputs and specifications.                                              *)

MaxTokens == 3
MaxNumber == 1
MaxCallable == 2

Strings == {"", "a"}

Values ==
    {String(s) : s \in Strings} \cup {Number(n) : n \in 0..MaxNumber} \cup {NumberNaN}
    \cup {Boolean(v) : v \in BOOLEAN} \cup {Null} \cup {CallPtr(c) : c \in 1..MaxCallable}

Alphabet ==
    {"NumberLiteral", "Identifier", "Equal", "Plus", "Semicolon", "LeftParenthesis",
     "RightParenthesis", "LeftCurlyBracket", "RightCurlyBracket", "Var", "Print",
     "If", "Else", "While", "For"}

Sequences(S, n) == UNION {[1..k -> S] : k \in 0..n}

InitParser(programs) ==
    /\ \E s \in programs : tokens = s \o <<"EndOfFile">>
    /\ current = 0
    /\ statements = <<>>
    /\ errors = <<>>
    /\ syncs = <<>>
    /\ pc = "loop"
    /\ a = Null /\ b = Null
    /\ truthy1 = Unset /\ truthy2 = Unset /\ equal = Unset

\* well-formed programs that between them use every rule of the grammar
Corpus ==
    { <<"For", "LeftParenthesis", "Var", "Identifier", "Equal", "NumberLiteral", "Semicolon",
        "Identifier", "LessThanSign", "NumberLiteral", "Semicolon",
        "Identifier", "Equal", "Identifier", "Plus", "NumberLiteral", "RightParenthesis",
        "Print", "Identifier", "Semicolon">>,
      <<"If", "LeftParenthesis", "Identifier", "Or", "True", "RightParenthesis",
        "LeftCurlyBracket", "Print", "StringLiteral", "Semicolon", "RightCurlyBracket",
        "Else", "Identifier", "Equal", "Nil", "Semicolon">>,
      <<"While", "LeftParenthesis", "Bang", "False", "And", "Identifier", "RightParenthesis",
        "LeftCurlyBracket", "Var", "Identifier", "Semicolon",
        "Identifier", "Equal", "LeftParenthesis", "NumberLiteral", "RightParenthesis",
        "Semicolon", "RightCurlyBracket">>,
      <<"LeftCurlyBracket", "LeftCurlyBracket", "Identifier", "Semicolon", "RightCurlyBracket",
        "Print", "Minus", "NumberLiteral", "Star", "NumberLiteral", "Semicolon",
        "RightCurlyBracket">>,
      <<"NumberLiteral", "EqualEqual", "NumberLiteral", "Semicolon",
        "Print", "NumberLiteral", "Semicolon",
        "Var", "Identifier", "Equal", "NumberLiteral", "Semicolon">> }

Remove(s, i) == SubSeq(s, 1, i - 1) \o SubSeq(s, i + 1, Len(s))

\* a program, and the program with one token replaced or left out
Edits(s) ==
    {s} \cup {[s EXCEPT ![i] = t] : i \in 1..Len(s), t \in Alphabet}
        \cup {Remove(s, i) : i \in 1..Len(s)}

Init == InitParser(Sequences(Alphabet, MaxTokens) \cup UNION {Edits(s) : s \in Corpus})

Next == parseLoop \/ parseReturn

Spec == Init /\ [][Next]_vars

\* the operators of the binary rules, from logic_or down to factor
BinaryOperators ==
    {"Or", "And", "BangEqual", "EqualEqual", "GreaterThanSign", "GreaterEqual",
     "LessThanSign", "LessEqual", "Minus", "Plus", "Slash", "Star"}

MaxOperators == 3
MaxExprTokens == 4

\* number (op number)*, with at most n operators
Chains(n) ==
    UNION {{[i \in 1..(2 * k + 1) |-> IF i % 2 = 1 THEN "NumberLiteral" ELSE ops[i \div 2]] :
              ops \in [1..k -> BinaryOperators]} : k \in 0..n}

ExprAlphabet ==
    {"NumberLiteral", "Identifier", "Minus", "Star", "Or", "EqualEqual", "Bang",
     "LeftParenthesis", "RightParenthesis"}

\* expression statements: an operator chain or any short token string, and ';'
InitExpr ==
    InitParser({e \o <<"Semicolon">> :
                  e \in Chains(MaxOperators) \cup Sequences(ExprAlphabet, MaxExprTokens)})

SpecExpr == InitExpr /\ [][Next]_vars

MaxForNesting == 1

ForInitializers ==
    { <<"Semicolon">>,
      <<"Var", "Identifier", "Semicolon">>,
      <<"Var", "Identifier", "Equal", "NumberLiteral", "Semicolon">>,
      <<"Identifier", "Equal", "NumberLiteral", "Semicolon">>,
      <<"NumberLiteral", "Semicolon">> }

ForConditions ==
    { <<>>, <<"Identifier">>, <<"True">>, <<"Identifier", "LessThanSign", "NumberLiteral">> }

ForIncrements ==
    { <<>>, <<"Identifier">>, <<"Identifier", "Equal", "Identifier", "Plus", "NumberLiteral">> }

ForBodies ==
    { <<"Print", "Identifier", "Semicolon">>,
      <<"Identifier", "Semicolon">>,
      <<"LeftCurlyBracket", "RightCurlyBracket">>,
      <<"LeftCurlyBracket", "Print", "Identifier", "Semicolon", "RightCurlyBracket">>,
      <<"If", "LeftParenthesis", "Identifier", "RightParenthesis",
        "Print", "Identifier", "Semicolon">> }

For(i, c, n, body) ==
    <<"For", "LeftParenthesis">> \o i \o c \o <<"Semicolon">> \o n
        \o <<"RightParenthesis">> \o body

RECURSIVE ForStatements(_)

\* for statements with every combination of clauses, nested up to depth d
\* (an outer loop has no condition, and its other clauses absent or shortest)
ForStatements(d) ==
    IF d = 0
    THEN {For(i, c, n, body) : i \in ForInitializers, c \in ForConditions,
                               n \in ForIncrements, body \in ForBodies}
    ELSE ForStatements(d - 1)
         \cup {For(i, c, n, body) :
                 i \in {<<"Semicolon">>, <<"Var", "Identifier", "Semicolon">>},
                 c \in {<<>>}, n \in {<<>>, <<"Identifier">>},
                 body \in ForStatements(d - 1)}

InitFor == InitParser(ForStatements(MaxForNesting))

SpecFor == InitFor /\ [][Next]_vars

MaxAssignTokens == 5

AssignAlphabet ==
    {"NumberLiteral", "Identifier", "Equal", "Semicolon", "LeftParenthesis",
     "RightParenthesis"}

InitAssign == InitParser(Sequences(AssignAlphabet, MaxAssignTokens))

SpecAssign == InitAssign /\ [][Next]_vars

MaxStatements == 3

\* statements without blocks, each ending with its own ';': well-formed ones
\* (bad = 0) and malformed ones, bad being the place in the statement of the
\* token the parser cannot accept
StatementForms ==
    { [id |-> "expr", bad |-> 0, toks |-> <<"NumberLiteral", "Semicolon">>],
      [id |-> "print", bad |-> 0, toks |-> <<"Print", "NumberLiteral", "Semicolon">>],
      [id |-> "var", bad |-> 0, toks |-> <<"Var", "Identifier", "Semicolon">>],
      [id |-> "varInit", bad |-> 0,
       toks |-> <<"Var", "Identifier", "Equal", "NumberLiteral", "Semicolon">>],
      [id |-> "if", bad |-> 0,
       toks |-> <<"If", "LeftParenthesis", "Identifier", "RightParenthesis",
                  "Print", "NumberLiteral", "Semicolon">>],
      [id |-> "twoOperands", bad |-> 2,
       toks |-> <<"NumberLiteral", "NumberLiteral", "Semicolon">>],
      [id |-> "printNothing", bad |-> 2, toks |-> <<"Print", "Semicolon">>],
      [id |-> "varNoName", bad |-> 2, toks |-> <<"Var", "Semicolon">>],
      [id |-> "varNoValue", bad |-> 4,
       toks |-> <<"Var", "Identifier", "Equal", "Semicolon">>],
      [id |-> "unclosed", bad |-> 3,
       toks |-> <<"LeftParenthesis", "NumberLiteral", "Semicolon">>],
      [id |-> "empty", bad |-> 1, toks |-> <<"Semicolon">>],
      [id |-> "keywordAsOperator", bad |-> 2,
       toks |-> <<"NumberLiteral", "Print", "NumberLiteral", "Semicolon">>],
      [id |-> "keywordAfterError", bad |-> 2,
       toks |-> <<"NumberLiteral", "NumberLiteral", "Print", "Semicolon">>],
      [id |-> "forClauses", bad |-> 4,
       toks |-> <<"For", "LeftParenthesis", "NumberLiteral", "NumberLiteral", "Semicolon",
                  "Semicolon", "RightParenthesis", "Print", "NumberLiteral", "Semicolon">>] }

RECURSIVE Flattened(_)

Flattened(forms) ==
    IF forms = <<>> THEN <<>> ELSE Head(forms).toks \o Flattened(Tail(forms))

InitStatements ==
    InitParser({Flattened(forms) : forms \in Sequences(StatementForms, MaxStatements)})

SpecStatements == InitStatements /\ [][Next]_vars

InitValue ==
    /\ tokens = <<"EndOfFile">>
    /\ current = 0
    /\ statements = <<>>
    /\ errors = <<>>
    /\ syncs = <<>>
    /\ pc = "values"
    /\ a \in Values /\ b \in Values
    /\ truthy1 = Unset /\ truthy2 = Unset /\ equal = Unset

NextValue == callIsTruthy \/ callIsEqual

SpecValue == InitValue /\ [][NextValue]_vars

----------------------------------------------------------------------------
(* Helpers of the properties.                                              *)

\* the token positions at which a rule can be started: every one but EOF's
Positions == 0..(Len(tokens) - 2)

\* a parser object started at position c with nothing reported yet
Fresh(c) == [current |-> c, errors |-> <<>>, syncs |-> <<>>]

\* the diagnostics that come from a thrown parse error
Thrown(diags) == SelectSeq(diags, LAMBDA d : d.msg # "Invalid assignment target")

RECURSIVE HasNull(_)

\* a statement that is, or holds in a statement list, a null pointer
HasNull(node) ==
    CASE node.kind = "null" -> TRUE
      [] node.kind = "Block" -> \E i \in 1..Len(node.stmts) : HasNull(node.stmts[i])
      [] node.kind = "If" ->
            HasNull(node.thenBranch)
            \/ (node.elseBranch.kind # "null" /\ HasNull(node.elseBranch))
      [] node.kind = "While" -> HasNull(node.body)
      [] OTHER -> FALSE

----------------------------------------------------------------------------
(* C1: for every token sequence that ends with EOF parse returns normally: *)
(* no exception leaves it, and every thrown parse error is caught by the   *)
(* catch clause of declaration (never by the one of parse), reported with  *)
(* the line of its token and followed by a synchronize that starts at that *)
(* token.                                                                  *)
C1_ParseReturnsNormally ==
    /\ pc \in {"loop", "returned"}
    /\ Len(Thrown(errors)) = Len(syncs)
    /\ \A i \in 1..Len(syncs) :
          /\ syncs[i].by = "declaration"
          /\ syncs[i].from = Thrown(errors)[i].line - 1

C1_Witness ==
    /\ pc = "returned"
    /\ Len(syncs) >= 2
    /\ \E i \in 1..Len(statements) : statements[i].kind = "Block"

(* C2: every entry of the sequence parse returns, and every child of every *)
(* Block in it, is a built statement, never a null pointer.                *)
C2_NoNullStatement ==
    pc = "returned" => \A i \in 1..Len(statements) : ~HasNull(statements[i])

(* C9 as stated: whenever synchronize returns, the cursor is at EOF, or    *)
(* the token before the cursor is ';', or the token at the cursor is one   *)
(* of the statement keywords; and none of the tokens it discarded is a     *)
(* statement keyword.                                                      *)
SyncStopsAtBoundary(s) ==
    \/ at(s.to).type = "EndOfFile"
    \/ (s.to >= 1 /\ at(s.to - 1).type = "Semicolon")
    \/ at(s.to).type \in BoundaryKeywords

C9_NoKeywordDiscarded ==
    \A i \in 1..Len(syncs) :
        /\ SyncStopsAtBoundary(syncs[i])
        /\ \A j \in syncs[i].from..(syncs[i].to - 1) : at(j).type \notin BoundaryKeywords

(* C9 amended: as above, but the token at the cursor when synchronize is   *)
(* called is discarded whatever it is (unless it is EOF): no statement     *)
(* keyword is among the tokens discarded after that first one.             *)
C9_NoKeywordDiscardedAfterFirst ==
    \A i \in 1..Len(syncs) :
        /\ SyncStopsAtBoundary(syncs[i])
        /\ \A j \in (syncs[i].from + 1)..(syncs[i].to - 1) :
              at(j).type \notin BoundaryKeywords

C9_Witness ==
    \E i \in 1..Len(syncs) :
        /\ syncs[i].to >= syncs[i].from + 2
        /\ at(syncs[i].to).type \in BoundaryKeywords
        /\ at(syncs[i].to - 1).type # "Semicolon"

(* C10: parse is a single pass from left to right.  The cursor never       *)
(* decreases and never passes EOF; a call of declaration at any position   *)
(* that is not EOF's (parse and block call it at such positions only)      *)
(* returns with the cursor strictly further right, whether it built a      *)
(* statement or recovered; and when parse has returned the cursor is at    *)
(* EOF.                                                                    *)
C10_State ==
    /\ current <= Len(tokens) - 1
    /\ \A c \in Positions :
          \A d \in {declaration(Fresh(c))} :
          /\ d.exc = "none"
          /\ d.p.current > c
          /\ d.p.current <= Len(tokens) - 1
    /\ pc \in {"loop", "returned"}
    /\ pc = "returned" => isAtEnd(P)

C10_SinglePass ==
    /\ []C10_State
    /\ [][current' >= current /\ (~isAtEnd(P) => current' > current)]_vars

\* a block whose declarations both built a statement and recovered
C10_Witness ==
    /\ pc = "returned"
    /\ \E i \in 1..Len(statements) :
          /\ statements[i].kind = "Block"
          /\ \E j, k \in 1..Len(statements[i].stmts) :
                /\ statements[i].stmts[j].kind = "null"
                /\ statements[i].stmts[k].kind # "null"

----------------------------------------------------------------------------
(* C6: precedence and associativity of the binary rules.                   *)

\* how tightly a node binds: logic_or 1 ... factor 6, unary 7, primary 8
NodeLevel(n) ==
    CASE n.kind \in {"Binary", "Logical"} ->
            (CASE n.op.type = "Or" -> 1
               [] n.op.type = "And" -> 2
               [] n.op.type \in {"BangEqual", "EqualEqual"} -> 3
               [] n.op.type \in {"GreaterThanSign", "GreaterEqual", "LessThanSign",
                                 "LessEqual"} -> 4
               [] n.op.type \in {"Minus", "Plus"} -> 5
               [] n.op.type \in {"Slash", "Star"} -> 6)
      [] n.kind = "Unary" -> 7
      [] OTHER -> 8

RECURSIVE PrecedenceOK(_), InOrder(_)

\* under an operator the left operand binds at least as tightly and the
\* right operand strictly tighter; and/or build Logical, the others Binary
PrecedenceOK(n) ==
    CASE n.kind \in {"Binary", "Logical"} ->
            /\ (n.kind = "Logical") = (n.op.type \in {"Or", "And"})
            /\ n.op.type \in BinaryOperators
            /\ NodeLevel(n.left) >= NodeLevel(n)
            /\ NodeLevel(n.right) > NodeLevel(n)
            /\ PrecedenceOK(n.left)
            /\ PrecedenceOK(n.right)
      [] n.kind = "Unary" ->
            /\ n.op.type \in {"Bang", "Minus"}
            /\ NodeLevel(n.right) >= 7
            /\ PrecedenceOK(n.right)
      [] n.kind = "Grouping" -> PrecedenceOK(n.right)
      [] OTHER -> TRUE

\* the lines of the tokens of an expression, read off the tree from left to
\* right (a number literal's value is its line; parentheses sit around the
\* tokens they enclose)
InOrder(n) ==
    CASE n.kind \in {"Binary", "Logical"} ->
            InOrder(n.left) \o <<n.op.line>> \o InOrder(n.right)
      [] n.kind = "Unary" -> <<n.op.line>> \o InOrder(n.right)
      [] n.kind = "Grouping" ->
            LET f == InOrder(n.right) IN <<f[1] - 1>> \o f \o <<f[Len(f)] + 1>>
      [] n.kind = "Variable" -> <<n.name.line>>
      [] n.kind = "Literal" -> <<n.value.num>>

Num(i) == Literal(Number(i))
Op(type, i) == [type |-> type, line |-> i, literal |-> i]

(* C6: when a statement `expression ;` built from operands, unary and      *)
(* binary operators and parentheses parses without a diagnostic, the tree  *)
(* holds exactly the tokens of the expression in their order, every        *)
(* operator has its left operand at the same or a tighter level and its    *)
(* right operand at a strictly tighter level (precedence, and left         *)
(* associativity within a level), so "1 + 2 * 3" is                        *)
(* Binary(1, +, Binary(2, *, 3)) and "1 - 2 - 3" is                        *)
(* Binary(Binary(1, -, 2), -, 3).                                          *)
C6_PrecedenceAndAssociativity ==
    (pc = "returned" /\ errors = <<>> /\ Len(statements) = 1
        /\ statements[1].kind = "ExprStmt")
    => LET e == statements[1].right IN
       /\ InOrder(e) = [i \in 1..(Len(tokens) - 2) |-> i]
       /\ PrecedenceOK(e)
       /\ tokens = <<"NumberLiteral", "Plus", "NumberLiteral", "Star", "NumberLiteral",
                     "Semicolon", "EndOfFile">>
          => e = Binary(Num(1), Op("Plus", 2), Binary(Num(3), Op("Star", 4), Num(5)))
       /\ tokens = <<"NumberLiteral", "Minus", "NumberLiteral", "Minus", "NumberLiteral",
                     "Semicolon", "EndOfFile">>
          => e = Binary(Binary(Num(1), Op("Minus", 2), Num(3)), Op("Minus", 4), Num(5))

\* a parsed chain of three operators of three different levels
C6_Witness ==
    /\ pc = "returned" /\ errors = <<>> /\ Len(statements) = 1
    /\ tokens = <<"NumberLiteral", "Or", "NumberLiteral", "Plus", "NumberLiteral", "Star",
                  "NumberLiteral", "Semicolon", "EndOfFile">>
    /\ statements[1] =
          ExprStmt(Logical(Num(1), Op("Or", 2),
                           Binary(Num(3), Op("Plus", 4),
                                  Binary(Num(5), Op("Star", 6), Num(7)))))

----------------------------------------------------------------------------
(* C5: the for statement is rewritten into Block and While.                *)

Id(i) == Variable(Op("Identifier", i))

\* whether node is what the for statement with its keyword at position c must
\* become, given its clauses: a clause is present when the lookahead at its
\* place is not the token that closes it
Desugared(c, node) ==
    LET i0 == c + 2
        hasInitializer == at(i0).type # "Semicolon"
    IN
    \E initializer \in {IF ~hasInitializer THEN Ok(Fresh(i0 + 1), NullNode)
                        ELSE IF at(i0).type = "Var" THEN varDeclaration(Fresh(i0 + 1))
                        ELSE expressionStatement(Fresh(i0))} :
    LET c0 == initializer.p.current
        hasCondition == at(c0).type # "Semicolon"
    IN
    \E condition \in {IF hasCondition THEN expression(Fresh(c0))
                      ELSE Ok(Fresh(c0), Literal(Boolean(TRUE)))} :
    LET n0 == condition.p.current + 1
        hasIncrement == at(n0).type # "RightParenthesis"
    IN
    \E increment \in {IF hasIncrement THEN expression(Fresh(n0))
                      ELSE Ok(Fresh(n0), NullNode)} :
    \E body \in {statement(Fresh(increment.p.current + 1))} :
    \E loop \in {While(condition.node,
                       IF hasIncrement THEN Block(<<body.node, ExprStmt(increment.node)>>)
                       ELSE body.node)} :
        node = IF hasInitializer THEN Block(<<initializer.node, loop>>) ELSE loop

ForExample ==
    <<"For", "LeftParenthesis", "Var", "Identifier", "Equal", "NumberLiteral", "Semicolon",
      "Identifier", "LessThanSign", "NumberLiteral", "Semicolon",
      "Identifier", "Equal", "Identifier", "Plus", "NumberLiteral", "RightParenthesis",
      "Print", "Identifier", "Semicolon", "EndOfFile">>

ForExampleTree ==
    Block(<<VarDecl(Op("Identifier", 4), Num(6)),
            While(Binary(Id(8), Op("LessThanSign", 9), Num(10)),
                  Block(<<PrintStmt(Id(19)),
                          ExprStmt(Assign(Op("Identifier", 12),
                                          Binary(Id(14), Op("Plus", 15), Num(16))))>>))>>)

(* C5: a for statement that parses, wherever it stands, becomes a While    *)
(* whose condition is the parsed condition, or the literal true when there *)
(* is none, and whose body is the parsed body, or the block of the body    *)
(* and the increment as an ExprStmt when there is an increment; the While  *)
(* is the second statement of a Block after the initializer exactly when   *)
(* there is an initializer.  "for (var i = 0; i < 3; i = i + 1) print i;"  *)
(* becomes Block[VarDecl, While(i < 3, Block[Print, ExprStmt(i = i + 1)])].*)
C5_ForDesugaring ==
    /\ \A c \in Positions :
          at(c).type = "For" =>
              \A r \in {statement(Fresh(c))} :
              r.exc = "none" => /\ r.node.kind \in {"While", "Block"}
                                /\ Desugared(c, r.node)
    /\ (pc = "returned" /\ tokens = ForExample) => statements = <<ForExampleTree>>

C5_Witness ==
    /\ pc = "returned"
    /\ tokens = ForExample
    /\ errors = <<>>
    /\ statements = <<ForExampleTree>>

----------------------------------------------------------------------------
(* C4: the target of an assignment.                                        *)

InvalidTarget(equalsAt) == [line |-> equalsAt + 1, msg |-> "Invalid assignment target"]

(* C4 as stated: wherever assignment is started, if logicOr parses a left  *)
(* side that is followed by '=', then, the left side not being a Variable, *)
(* the rule throws nothing, reports exactly one diagnostic, "Invalid       *)
(* assignment target" at the line of the '=', and returns the left side;   *)
(* the left side being a Variable, it returns an Assign of its name and    *)
(* reports nothing.                                                        *)
C4_InvalidTargetReportedOnce ==
    \A c \in Positions :
    \A l \in {logicOr(Fresh(c))} :
        (l.exc = "none" /\ at(l.p.current).type = "Equal") =>
            \A r \in {assignment(Fresh(c))} :
                /\ r.exc = "none"
                /\ r.p.syncs = <<>>
                /\ IF l.node.kind # "Variable"
                   THEN /\ r.node = l.node
                        /\ r.p.errors = l.p.errors \o <<InvalidTarget(l.p.current)>>
                   ELSE /\ r.node.kind = "Assign"
                        /\ r.node.name = l.node.name
                        /\ r.p.errors = l.p.errors

(* C4 amended: the right side is parsed, by assignment itself, before the  *)
(* target is looked at.  If the right side throws, that parse error leaves *)
(* the rule and nothing is reported for the target.  If it parses, then,   *)
(* the left side not being a Variable, the rule throws nothing, adds after *)
(* the diagnostics of the right side exactly one "Invalid assignment       *)
(* target" at the line of the '=', builds no Assign for this '=' and       *)
(* returns the left side; the left side being a Variable, it returns       *)
(* Assign(name, right side) and adds no diagnostic of its own.  "1 = 2;"   *)
(* gives one diagnostic, no synchronize and ExprStmt(1).                   *)
C4_InvalidTargetAfterRightSide ==
    /\ \A c \in Positions :
       \A l \in {logicOr(Fresh(c))} :
          (l.exc = "none" /\ at(l.p.current).type = "Equal") =>
              \A v \in {assignment([l.p EXCEPT !.current = l.p.current + 1])} :
              \A r \in {assignment(Fresh(c))} :
                  IF v.exc # "none"
                  THEN r = v
                  ELSE /\ r.exc = "none"
                       /\ r.p.current = v.p.current
                       /\ r.p.syncs = <<>>
                       /\ IF l.node.kind # "Variable"
                          THEN /\ r.node = l.node
                               /\ r.p.errors = v.p.errors \o <<InvalidTarget(l.p.current)>>
                          ELSE /\ r.node = Assign(l.node.name, v.node)
                               /\ r.p.errors = v.p.errors
    /\ (pc = "returned"
          /\ tokens = <<"NumberLiteral", "Equal", "NumberLiteral", "Semicolon", "EndOfFile">>)
       => /\ errors = <<InvalidTarget(1)>>
          /\ syncs = <<>>
          /\ statements = <<ExprStmt(Num(1))>>

C4_Witness ==
    /\ pc = "returned"
    /\ tokens = <<"NumberLiteral", "Equal", "NumberLiteral", "Semicolon", "EndOfFile">>
    /\ errors = <<InvalidTarget(1)>>
    /\ statements = <<ExprStmt(Num(1))>>

----------------------------------------------------------------------------
(* C3: one diagnostic for every malformed statement.                       *)

RECURSIVE LayoutFrom(_), IsSubSeq(_, _)

\* the statements of the program from token i (1-based) on, each with the
\* line it begins at; no form is the beginning of another, so it is unique
LayoutFrom(i) ==
    IF tokens[i] = "EndOfFile" THEN <<>>
    ELSE LET f == CHOOSE g \in StatementForms :
                     /\ i + Len(g.toks) - 1 < Len(tokens)
                     /\ SubSeq(tokens, i, i + Len(g.toks) - 1) = g.toks
         IN  <<[id |-> f.id, bad |-> f.bad, toks |-> f.toks, start |-> i]>>
                 \o LayoutFrom(i + Len(f.toks))

Layout == LayoutFrom(1)

Malformed(layout) == SelectSeq(layout, LAMBDA f : f.bad > 0)
WellFormed(layout) == SelectSeq(layout, LAMBDA f : f.bad = 0)

\* the node of a well-formed statement that begins at line s
NodeOf(f) ==
    LET s == f.start IN
    CASE f.id = "expr" -> ExprStmt(Num(s))
      [] f.id = "print" -> PrintStmt(Num(s + 1))
      [] f.id = "var" -> VarDecl(Op("Identifier", s + 1), NullNode)
      [] f.id = "varInit" -> VarDecl(Op("Identifier", s + 1), Num(s + 3))
      [] f.id = "if" -> If(Id(s + 2), PrintStmt(Num(s + 5)), NullNode)

IsSubSeq(s, t) ==
    IF s = <<>> THEN TRUE
    ELSE IF t = <<>> THEN FALSE
    ELSE IF Head(s) = Head(t) THEN IsSubSeq(Tail(s), Tail(t))
    ELSE IsSubSeq(s, Tail(t))

\* after its offending token a malformed statement has no statement keyword,
\* and from that token on no ';' but its last token
Clean(f) ==
    /\ \A j \in (f.bad + 1)..Len(f.toks) : f.toks[j] \notin BoundaryKeywords
    /\ \A j \in f.bad..(Len(f.toks) - 1) : f.toks[j] # "Semicolon"

----------------------------------------------------------------------------
(* The value operations.                                                   *)

Falsey == {Null, Boolean(FALSE)}

(* C7: for a value of any of the five alternatives isTruthy, in either of  *)
(* its definitions, returns without failing, and returns false exactly     *)
(* for Null and Boolean(false).                                            *)
C7_TruthyTotal ==
    /\ truthy1 # Unset => (truthy1.exc = "none" /\ (truthy1.ret = FALSE <=> a \in Falsey))
    /\ truthy2 # Unset => (truthy2.exc = "none" /\ (truthy2.ret = FALSE <=> a \in Falsey))

(* C8: isEqual(a, b) is true exactly when a and b hold the same            *)
(* alternative with the same payload: isEqual(v, v) is true for every v,   *)
(* Null equals only Null, and values of different alternatives are never   *)
(* equal.                                                                  *)
C8_EqualIffSame ==
    equal # Unset =>
        /\ equal.exc = "none"
        /\ equal.ret = (a = b)
        /\ a.tag # b.tag => equal.ret = FALSE
        /\ (a = Null) # (b = Null) => equal.ret = FALSE

====
